---- MODULE Spec2Model ----
(***************************************************************************)
(* State machine of the Whackers registration backend (UI/server.js):      *)
(* the in-memory OTP_STORE, the two account collections of the             *)
(* kirana_system database, and the three request handlers /send-otp,       *)
(* /verify-otp and /login.  The event loop runs a handler without          *)
(* interruption up to an await and again from the awaited call's           *)
(* completion.  Only /verify-otp touches shared state after its await      *)
(* (insertOne), so that is where handlers are modelled as suspended and    *)
(* other requests run in between.                                          *)
(***************************************************************************)
EXTENDS Integers, Sequences, FiniteSets, Bags, TLC

\* ------------------------------------------------------------------ bounds
\* Handlers that may be suspended at an await at once.
MaxInflight == 2
\* Valid /send-otp requests accepted in one behaviour.
MaxIssues == 2
\* Account inserts started in one behaviour.
MaxAccounts == 2

\* ------------------------------------------------------------ input values
\* A field that is missing from the JSON body (undefined) or empty: falsy.
Absent == ""
Emails == {"a@x.com", "b@x.com"}
Names == {"Asha"}
Phones == {"9000000000"}
Passwords == {"pw1", "pw2"}
\* the passwords accounts are registered with
SendPasswords == {"pw1"}
\* "admin" is a role that is present but not recognised.
Roles == {"user", "shopkeeper", "admin"}
\* The codes generateOTP can return (two of the 6-digit strings).
OTPs == {"123456", "654321"}

\* 5 * 60 * 1000 ms, the validity window added to Date.now().
TTL == 5 * 60 * 1000
\* The instants Date.now() is observed at: issuance, the deadline, and past it.
Times == {0, TTL, TTL + 1}

\* Request bodies over the emails E: every field present, or one field of a
\* well-formed body missing.
Blank(b) == {[b EXCEPT ![f] = Absent] : f \in DOMAIN b}
SendFull(E) ==
    [role : Roles, name : Names, email : E, phone : Phones, password : SendPasswords]
SendBodies(E) ==
    SendFull(E) \cup UNION {Blank(b) : b \in {x \in SendFull(E) : x.role = "user"}}
VerifyFull(E) == [email : E, otp : OTPs]
VerifyBodies(E) == VerifyFull(E) \cup UNION {Blank(b) : b \in VerifyFull(E)}
LoginFull(E) == [role : Roles, email : E, password : Passwords]
LoginBodies(E) ==
    LoginFull(E) \cup UNION {Blank(b) : b \in {x \in LoginFull(E) : x.role = "user"}}

\* the requests clients using the addresses E can send, per route
Traffic(E) == [send |-> SendBodies(E), verify |-> VerifyBodies(E), login |-> LoginBodies(E)]
OneClient == Traffic({"a@x.com"})
AnyClient == Traffic(Emails)
\* the well-formed bodies among them
AnySend == SendFull(Emails)
AnyVerify == VerifyFull(Emails)
AnyLogin == LoginFull(Emails)

VARIABLES
    now,        \* Date.now()
    OTP_STORE,  \* the object OTP_STORE: a set of [key, value] properties
    db,         \* kirana_system: collection name -> set of documents
    inflight,   \* the /verify-otp handlers suspended at insertOne, with their locals (a bag)
    res,        \* the res.json(...) call of the step just taken, NoRes if it made none
    calls,      \* the collaborator calls the step just taken made, in order
    issued,     \* history: number of records written to OTP_STORE so far
    origin,     \* history: origin[_id] = the pending record an account was made from
    purged,     \* history: emails whose record was removed as expired, none written since
    replaced    \* history: the code and role of the record the stored one overwrote

vars == <<now, OTP_STORE, db, inflight, res, calls, issued, origin, purged, replaced>>

\* --------------------------------------------------- plain-object semantics
\* Keys are email addresses; none of them names a property inherited from
\* Object.prototype, so a lookup finds an own property or undefined.
NoRecord == [none |-> TRUE]

\* OTP_STORE[k]
Get(store, k) ==
    IF \E en \in store : en.key = k
    THEN (CHOOSE en \in store : en.key = k).value
    ELSE NoRecord

\* An assignment that adds the property beside the one already there.
PutKeepingOld(store, k, v) == store \cup {[key |-> k, value |-> v]}

\* OTP_STORE[k] = v
Put(store, k, v) == {en \in store : en.key # k} \cup {[key |-> k, value |-> v]}

\* delete OTP_STORE[k]
Delete(store, k) == {en \in store : en.key # k}

\* ------------------------------------------------------- the handlers' tests
Falsy(v) == v = Absent

\* A test that forgets the phone.
SendMissingIgnoringPhone(b) ==
    Falsy(b.role) \/ Falsy(b.name) \/ Falsy(b.email) \/ Falsy(b.password)

\* !role || !name || !email || !phone || !password
SendMissing(b) ==
    Falsy(b.role) \/ Falsy(b.name) \/ Falsy(b.email) \/ Falsy(b.phone) \/ Falsy(b.password)

\* A handler without the role test.
RoleUnchecked(role) == TRUE

\* ["user", "shopkeeper"].includes(role)
RoleRecognised(role) == role \in {"user", "shopkeeper"}

\* !email || !otp
VerifyMissing(b) == Falsy(b.email) \/ Falsy(b.otp)

\* A test that already fails at the deadline.
ExpiredAtDeadline(record, t) == t >= record.expiresAt

\* Date.now() > record.expiresAt
Expired(record, t) == t > record.expiresAt

\* !role || !email || !password
LoginMissing(b) == Falsy(b.role) \/ Falsy(b.email) \/ Falsy(b.password)

\* A choice that ignores the role.
CollectionOfUsers(role) == "users"

\* role === "shopkeeper" ? "shopkeepers" : "users"
CollectionOf(role) == IF role = "shopkeeper" THEN "shopkeepers" ELSE "users"

\* A query on the email alone.
MatchesEmailOnly(coll, email, password) == {d \in coll : d.email = email}

\* the documents findOne({ email, password }) can return
Matches(coll, email, password) ==
    {d \in coll : d.email = email /\ d.password = password}

Collections == {"users", "shopkeepers"}
AllDocs == db["users"] \cup db["shopkeepers"]
\* the identifier insertOne assigns: fresh for every inserted document
FreshId == Cardinality(AllDocs) + 1

Failure(msg) == [success |-> FALSE, message |-> msg]
\* what the client sees: the fields identifying its request, and the body
Response(op, req, body) == [op |-> op, req |-> req, body |-> body]
NoRes == [op |-> "none"]

\* the calls of the collaborators, with their arguments
NoCalls == <<>>
SendOTPEmailCall(toEmail, otp) == [fn |-> "sendOTPEmail", toEmail |-> toEmail, otp |-> otp]
InsertOneCall(collection, doc) == [fn |-> "insertOne", collection |-> collection, doc |-> doc]
\* (of a query, the email identifying it)
FindOneCall(collection, email, password) == [fn |-> "findOne", email |-> email]

Suspend(c) == inflight' = inflight (+) SetToBag({c})
Resume(c) == inflight' = inflight (-) SetToBag({c})
Suspended == BagToSet(inflight)

\* inserts stored or awaited
InsertsStarted == Cardinality(AllDocs) + BagCardinality(inflight)

Init ==
    /\ now = 0
    /\ OTP_STORE = {}
    /\ db = [c \in Collections |-> {}]
    /\ inflight = EmptyBag
    /\ res = NoRes
    /\ calls = NoCalls
    /\ issued = 0
    /\ origin = <<>>
    /\ purged = {}
    /\ replaced = {}

\* A timer that sweeps the expired records as time passes.
TickSweeping ==
    /\ \E t \in Times : t > now /\ now' = t
    /\ OTP_STORE' = {en \in OTP_STORE : ~(now' > en.value.expiresAt)}
    /\ res' = NoRes
    /\ calls' = NoCalls
    /\ UNCHANGED <<db, inflight, issued, origin, purged, replaced>>

\* Date.now() moves forward between handler steps.
Tick ==
    /\ \E t \in Times : t > now /\ now' = t
    /\ res' = NoRes
    /\ calls' = NoCalls
    /\ UNCHANGED <<OTP_STORE, db, inflight, issued, origin, purged, replaced>>

\* ------------------------------------------------------------- POST /send-otp
SendOtpMissing(b) ==
    /\ SendMissing(b)
    /\ res' = Response("send-otp", [email |-> b.email], Failure("All fields are required."))
    /\ calls' = NoCalls
    /\ UNCHANGED <<now, OTP_STORE, db, inflight, issued, origin, purged, replaced>>

SendOtpInvalidRole(b) ==
    /\ ~SendMissing(b)
    /\ ~RoleRecognised(b.role)
    /\ res' = Response("send-otp", [email |-> b.email], Failure("Invalid role."))
    /\ calls' = NoCalls
    /\ UNCHANGED <<now, OTP_STORE, db, inflight, issued, origin, purged, replaced>>

\* An issuance that sends nothing new while an unexpired record is pending.
SendOtpStoreDeduplicating(b, otp) ==
    /\ ~SendMissing(b)
    /\ RoleRecognised(b.role)
    /\ issued < MaxIssues
    /\ IF Get(OTP_STORE, b.email) # NoRecord /\ ~Expired(Get(OTP_STORE, b.email), now)
       THEN /\ calls' = NoCalls
            /\ UNCHANGED <<OTP_STORE, replaced>>
       ELSE /\ OTP_STORE' = Put(OTP_STORE, b.email,
                                [otp |-> otp, expiresAt |-> now + TTL, data |-> b,
                                 id |-> issued + 1])
            /\ calls' = <<SendOTPEmailCall(b.email, otp)>>
            /\ replaced' = Delete(replaced, b.email)
    /\ issued' = issued + 1
    /\ purged' = purged \ {b.email}
    /\ UNCHANGED <<now, db, inflight, origin>>

\* generateOTP() returned otp: the write of OTP_STORE[email] and the call of
\* sendOTPEmail(email, otp).  After the await the handler only responds, so the
\* write, the call and the response are one step.
SendOtpStore(b, otp) ==
    /\ ~SendMissing(b)
    /\ RoleRecognised(b.role)
    /\ issued < MaxIssues
    /\ OTP_STORE' = Put(OTP_STORE, b.email,
                        [otp |-> otp, expiresAt |-> now + TTL, data |-> b,
                         id |-> issued + 1])
    /\ issued' = issued + 1
    /\ purged' = purged \ {b.email}
    /\ calls' = <<SendOTPEmailCall(b.email, otp)>>
    /\ replaced' = IF Get(OTP_STORE, b.email) = NoRecord
                   THEN Delete(replaced, b.email)
                   ELSE Put(replaced, b.email,
                            [otp |-> Get(OTP_STORE, b.email).otp,
                             role |-> Get(OTP_STORE, b.email).data.role])
    /\ UNCHANGED <<now, db, inflight, origin>>

\* sendOTPEmail resolved
SendOtpDelivered(b) ==
    /\ \E otp \in OTPs : SendOtpStore(b, otp)
    /\ res' = Response("send-otp", [email |-> b.email],
                       [success |-> TRUE, message |-> "OTP sent successfully!"])

\* A catch block that rolls the pending record back.
SendOtpFailedRollback(b) ==
    /\ ~SendMissing(b)
    /\ RoleRecognised(b.role)
    /\ issued < MaxIssues
    /\ OTP_STORE' = Delete(OTP_STORE, b.email)
    /\ issued' = issued + 1
    /\ purged' = purged \ {b.email}
    /\ res' = Response("send-otp", [email |-> b.email], Failure("Failed to send OTP."))
    /\ \E otp \in OTPs : calls' = <<SendOTPEmailCall(b.email, otp)>>
    /\ replaced' = Delete(replaced, b.email)
    /\ UNCHANGED <<now, db, inflight, origin>>

\* sendOTPEmail rejected: the catch block
SendOtpFailed(b) ==
    /\ \E otp \in OTPs : SendOtpStore(b, otp)
    /\ res' = Response("send-otp", [email |-> b.email], Failure("Failed to send OTP."))

\* ----------------------------------------------------------- POST /verify-otp
VerifyOtpMissing(b) ==
    /\ VerifyMissing(b)
    /\ res' = Response("verify-otp", b, Failure("Email & OTP are required."))
    /\ calls' = NoCalls
    /\ UNCHANGED <<now, OTP_STORE, db, inflight, issued, origin, purged, replaced>>

\* A handler without the !record test: record.expiresAt throws, the catch block answers.
VerifyOtpNotFoundUnchecked(b) ==
    /\ ~VerifyMissing(b)
    /\ Get(OTP_STORE, b.email) = NoRecord
    /\ res' = Response("verify-otp", b, Failure("Server error."))
    /\ calls' = NoCalls
    /\ UNCHANGED <<now, OTP_STORE, db, inflight, issued, origin, purged, replaced>>

VerifyOtpNotFound(b) ==
    /\ ~VerifyMissing(b)
    /\ Get(OTP_STORE, b.email) = NoRecord
    /\ res' = Response("verify-otp", b, Failure("OTP not found. Please request again."))
    /\ calls' = NoCalls
    /\ UNCHANGED <<now, OTP_STORE, db, inflight, issued, origin, purged, replaced>>

\* An expiry branch that leaves the record in place.
VerifyOtpExpiredKeeping(b) ==
    /\ ~VerifyMissing(b)
    /\ Get(OTP_STORE, b.email) # NoRecord
    /\ Expired(Get(OTP_STORE, b.email), now)
    /\ res' = Response("verify-otp", b, Failure("OTP expired."))
    /\ purged' = purged \cup {b.email}
    /\ calls' = NoCalls
    /\ UNCHANGED <<now, OTP_STORE, db, inflight, issued, origin, replaced>>

VerifyOtpExpired(b) ==
    /\ ~VerifyMissing(b)
    /\ Get(OTP_STORE, b.email) # NoRecord
    /\ Expired(Get(OTP_STORE, b.email), now)
    /\ OTP_STORE' = Delete(OTP_STORE, b.email)
    /\ res' = Response("verify-otp", b, Failure("OTP expired."))
    /\ purged' = purged \cup {b.email}
    /\ calls' = NoCalls
    /\ replaced' = Delete(replaced, b.email)
    /\ UNCHANGED <<now, db, inflight, issued, origin>>

\* A wrong code that also discards the pending record.
VerifyOtpMismatchDeleting(b) ==
    /\ ~VerifyMissing(b)
    /\ Get(OTP_STORE, b.email) # NoRecord
    /\ ~Expired(Get(OTP_STORE, b.email), now)
    /\ Get(OTP_STORE, b.email).otp # b.otp
    /\ OTP_STORE' = Delete(OTP_STORE, b.email)
    /\ res' = Response("verify-otp", b, Failure("Incorrect OTP."))
    /\ calls' = NoCalls
    /\ replaced' = Delete(replaced, b.email)
    /\ UNCHANGED <<now, db, inflight, issued, origin, purged>>

VerifyOtpMismatch(b) ==
    /\ ~VerifyMissing(b)
    /\ Get(OTP_STORE, b.email) # NoRecord
    /\ ~Expired(Get(OTP_STORE, b.email), now)
    /\ Get(OTP_STORE, b.email).otp # b.otp
    /\ res' = Response("verify-otp", b, Failure("Incorrect OTP."))
    /\ calls' = NoCalls
    /\ UNCHANGED <<now, OTP_STORE, db, inflight, issued, origin, purged, replaced>>

\* A handler that accepts whatever code is submitted for a pending record.
VerifyOtpInsertAnyCode(b) ==
    /\ ~VerifyMissing(b)
    /\ Get(OTP_STORE, b.email) # NoRecord
    /\ ~Expired(Get(OTP_STORE, b.email), now)
    /\ InsertsStarted < MaxAccounts
    /\ LET record == Get(OTP_STORE, b.email) IN
        Suspend([req |-> b, role |-> record.data.role,
                 collection |-> CollectionOf(record.data.role),
                 doc |-> [name |-> record.data.name, email |-> b.email,
                          phone |-> record.data.phone,
                          password |-> record.data.password],
                 rid |-> record.id])
    /\ res' = NoRes
    /\ LET record == Get(OTP_STORE, b.email) IN
        calls' = <<InsertOneCall(CollectionOf(record.data.role),
                                 [name |-> record.data.name, email |-> b.email,
                                  phone |-> record.data.phone,
                                  password |-> record.data.password])>>
    /\ UNCHANGED <<now, OTP_STORE, db, issued, origin, purged, replaced>>

\* the code matches: the document is built and insertOne is called and awaited
VerifyOtpInsert(b) ==
    /\ ~VerifyMissing(b)
    /\ Get(OTP_STORE, b.email) # NoRecord
    /\ ~Expired(Get(OTP_STORE, b.email), now)
    /\ Get(OTP_STORE, b.email).otp = b.otp
    /\ InsertsStarted < MaxAccounts
    /\ LET record == Get(OTP_STORE, b.email) IN
        Suspend([req |-> b, role |-> record.data.role,
                 collection |-> CollectionOf(record.data.role),
                 doc |-> [name |-> record.data.name, email |-> b.email,
                          phone |-> record.data.phone,
                          password |-> record.data.password],
                 rid |-> record.id])
    /\ res' = NoRes
    /\ LET record == Get(OTP_STORE, b.email) IN
        calls' = <<InsertOneCall(CollectionOf(record.data.role),
                                 [name |-> record.data.name, email |-> b.email,
                                  phone |-> record.data.phone,
                                  password |-> record.data.password])>>
    /\ UNCHANGED <<now, OTP_STORE, db, issued, origin, purged, replaced>>

\* An insert that replaces the account already stored for the email.
VerifyOtpRegisteredReplacing(c) ==
    /\ Resume(c)
    /\ db' = [db EXCEPT ![c.collection] =
                 {d \in @ : d.email # c.doc.email}
                 \cup {[_id |-> FreshId, name |-> c.doc.name, email |-> c.doc.email,
                         phone |-> c.doc.phone, password |-> c.doc.password]}]
    /\ origin' = Append(origin, c.rid)
    /\ OTP_STORE' = Delete(OTP_STORE, c.req.email)
    /\ res' = Response("verify-otp", c.req,
                       [success |-> TRUE, message |-> "OTP Verified! Account created.",
                        accountId |-> FreshId, role |-> c.role])
    /\ calls' = NoCalls
    /\ replaced' = Delete(replaced, c.req.email)
    /\ UNCHANGED <<now, issued, purged>>

\* insertOne resolved: the document is stored under a fresh _id, then
\* delete OTP_STORE[email] and the success response
VerifyOtpRegistered(c) ==
    /\ Resume(c)
    /\ db' = [db EXCEPT ![c.collection] =
                 @ \cup {[_id |-> FreshId, name |-> c.doc.name, email |-> c.doc.email,
                          phone |-> c.doc.phone, password |-> c.doc.password]}]
    /\ origin' = Append(origin, c.rid)
    /\ OTP_STORE' = Delete(OTP_STORE, c.req.email)
    /\ res' = Response("verify-otp", c.req,
                       [success |-> TRUE, message |-> "OTP Verified! Account created.",
                        accountId |-> FreshId, role |-> c.role])
    /\ calls' = NoCalls
    /\ replaced' = Delete(replaced, c.req.email)
    /\ UNCHANGED <<now, issued, purged>>

\* A catch block that discards the pending record.
VerifyOtpInsertFailedDeleting(c) ==
    /\ Resume(c)
    /\ OTP_STORE' = Delete(OTP_STORE, c.req.email)
    /\ res' = Response("verify-otp", c.req, Failure("Server error."))
    /\ calls' = NoCalls
    /\ replaced' = Delete(replaced, c.req.email)
    /\ UNCHANGED <<now, db, issued, origin, purged>>

\* insertOne rejected: the catch block
VerifyOtpInsertFailed(c) ==
    /\ Resume(c)
    /\ res' = Response("verify-otp", c.req, Failure("Server error."))
    /\ calls' = NoCalls
    /\ UNCHANGED <<now, OTP_STORE, db, issued, origin, purged, replaced>>

\* ---------------------------------------------------------------- POST /login
\* The handler touches shared state only in the findOne query, so the call,
\* the query and the response are one step.
LoginRejected(b) ==
    /\ LoginMissing(b)
    /\ res' = Response("login", [email |-> b.email], Failure("All fields are required."))
    /\ calls' = NoCalls
    /\ UNCHANGED <<now, OTP_STORE, db, inflight, issued, origin, purged, replaced>>

\* findOne resolved with null
LoginNoUser(b) ==
    /\ ~LoginMissing(b)
    /\ Matches(db[CollectionOf(b.role)], b.email, b.password) = {}
    /\ res' = Response("login", b, Failure("Invalid email or password."))
    /\ calls' = <<FindOneCall(CollectionOf(b.role), b.email, b.password)>>
    /\ UNCHANGED <<now, OTP_STORE, db, inflight, issued, origin, purged, replaced>>

\* findOne resolved with a document
LoginFound(b) ==
    /\ ~LoginMissing(b)
    /\ \E user \in Matches(db[CollectionOf(b.role)], b.email, b.password) :
        res' = Response("login", b,
                        [success |-> TRUE, message |-> "Login successful",
                         user |-> [id |-> ToString(user._id), name |-> user.name,
                                   email |-> user.email, phone |-> user.phone,
                                   role |-> b.role]])
    /\ calls' = <<FindOneCall(CollectionOf(b.role), b.email, b.password)>>
    /\ UNCHANGED <<now, OTP_STORE, db, inflight, issued, origin, purged, replaced>>

\* A handler without the catch block: the rejection is answered by nobody.
LoginFailedUncaught(b) ==
    /\ ~LoginMissing(b)
    /\ res' = NoRes
    /\ calls' = <<FindOneCall(CollectionOf(b.role), b.email, b.password)>>
    /\ UNCHANGED <<now, OTP_STORE, db, inflight, issued, origin, purged, replaced>>

\* findOne rejected: the catch block
LoginFailed(b) ==
    /\ ~LoginMissing(b)
    /\ res' = Response("login", [email |-> b.email], Failure("Server error."))
    /\ calls' = <<FindOneCall(CollectionOf(b.role), b.email, b.password)>>
    /\ UNCHANGED <<now, OTP_STORE, db, inflight, issued, origin, purged, replaced>>

\* ------------------------------------------------- a handler run on a body
\* POST /send-otp on body b, to its response
SendRequest(b) ==
    SendOtpMissing(b) \/ SendOtpInvalidRole(b) \/ SendOtpDelivered(b) \/ SendOtpFailed(b)

\* POST /verify-otp on body b, to its response or to its await
VerifyRequest(b) ==
    \/ VerifyOtpMissing(b)
    \/ VerifyOtpNotFound(b)
    \/ VerifyOtpExpired(b)
    \/ VerifyOtpMismatch(b)
    \/ VerifyOtpInsert(b)

\* POST /login on body b, to its response
LoginRequest(b) ==
    LoginRejected(b) \/ LoginNoUser(b) \/ LoginFound(b) \/ LoginFailed(b)

\* --------------------------------------------------------------- the server
\* Requests are accepted while fewer than n handlers are suspended.
Accepting(n) == BagCardinality(inflight) < n

\* A request over the emails E arrives and its handler runs to its first await
\* or to its response.
Request(n, T) ==
    \/ \E b \in T.send : Accepting(n) /\ SendOtpMissing(b)
    \/ \E b \in T.send : Accepting(n) /\ SendOtpInvalidRole(b)
    \/ \E b \in T.send : Accepting(n) /\ SendOtpDelivered(b)
    \/ \E b \in T.send : Accepting(n) /\ SendOtpFailed(b)
    \/ \E b \in T.verify : Accepting(n) /\ VerifyOtpMissing(b)
    \/ \E b \in T.verify : Accepting(n) /\ VerifyOtpNotFound(b)
    \/ \E b \in T.verify : Accepting(n) /\ VerifyOtpExpired(b)
    \/ \E b \in T.verify : Accepting(n) /\ VerifyOtpMismatch(b)
    \/ \E b \in T.verify : Accepting(n) /\ VerifyOtpInsert(b)
    \/ \E b \in T.login : Accepting(n) /\ LoginRejected(b)
    \/ \E b \in T.login : Accepting(n) /\ LoginNoUser(b)
    \/ \E b \in T.login : Accepting(n) /\ LoginFound(b)
    \/ \E b \in T.login : Accepting(n) /\ LoginFailed(b)

\* An awaited call completes and its handler runs to its response.
Completion ==
    \/ \E c \in Suspended : VerifyOtpRegistered(c)
    \/ \E c \in Suspended : VerifyOtpInsertFailed(c)

Serve(n, T) ==
    \/ Tick
    \/ Request(n, T)
    \/ Completion

\* requests for one email, their handlers interleaving at the awaits
Next == Serve(MaxInflight, OneClient)

Spec == Init /\ [][Next]_vars

\* the locals a /verify-otp handler can hold at its await
Continuations ==
    {[req |-> b, role |-> role, collection |-> CollectionOf(role),
      doc |-> [name |-> name, email |-> b.email, phone |-> phone, password |-> password],
      rid |-> rid] :
        b \in VerifyFull({"a@x.com"}), role \in {"user", "shopkeeper"}, name \in Names,
        phone \in Phones, password \in SendPasswords, rid \in 1..MaxIssues}

\* every awaited insertOne eventually resolves or rejects
Settles ==
    \A c \in Continuations : WF_vars(VerifyOtpRegistered(c) \/ VerifyOtpInsertFailed(c))

SpecLive == Init /\ [][Next]_vars /\ Settles

\* requests for two emails, each sent after the previous response
NextSeq == Serve(1, AnyClient)

SpecSeq == Init /\ [][NextSeq]_vars

\* ================================================================ properties
Stored(e) == Get(OTP_STORE, e)
AccountsFrom(r) == {i \in DOMAIN origin : origin[i] = r}
\* the handler of body b was suspended at insertOne on the record it matched
Accepted(b, record) ==
    /\ OTP_STORE' = OTP_STORE
    /\ db' = db
    /\ inflight' = inflight (+) SetToBag({[req |-> b, role |-> record.data.role,
                      collection |-> IF record.data.role = "shopkeeper"
                                     THEN "shopkeepers" ELSE "users",
                      doc |-> [name |-> record.data.name, email |-> b.email,
                               phone |-> record.data.phone,
                               password |-> record.data.password],
                      rid |-> record.id]})

\* the step answered a request of the route op, or suspended a handler
Answered(op) == res'.op = op
Suspending == inflight' # inflight /\ res' = NoRes

\* C1: verifications with the code of one issuance succeed exactly once and
\* create exactly one account: whenever such a verification returns success,
\* the account it inserted is the only one made from that issuance.
C1_VerifiesExactlyOnce ==
    [][\A c \in Suspended :
         (Answered("verify-otp") /\ VerifyOtpRegistered(c)) =>
             Cardinality({i \in DOMAIN origin' : origin'[i] = c.rid}) = 1]_vars

\* C2: however the verifications of one email interleave at the awaited insert,
\* one matched pending code never has more than one account inserted for it.
C2_OneAccountPerMatchedCode ==
    \A i, j \in DOMAIN origin : origin[i] = origin[j] => i = j

\* C3: a verification of a stored, unexpired record with a different code is
\* answered "Incorrect OTP." and changes neither the pending store nor the
\* accounts nor starts an insert; a verification of a stored, unexpired record
\* with its code is accepted (the account insert is started), whatever wrong
\* codes were submitted before.
C3_WrongCodeKeepsRecord ==
    [][(Answered("verify-otp") \/ Suspending) => \A b \in AnyVerify :
         (/\ Stored(b.email) # NoRecord
          /\ now <= Stored(b.email).expiresAt
          /\ VerifyRequest(b)) =>
             IF Stored(b.email).otp # b.otp
             THEN /\ res'.body = Failure("Incorrect OTP.")
                  /\ OTP_STORE' = OTP_STORE
                  /\ db' = db
                  /\ inflight' = inflight
             ELSE Accepted(b, Stored(b.email))]_vars

\* a wrong code has just been refused and the record is still stored, unexpired
C3_Witness ==
    /\ res.op = "verify-otp"
    /\ res.body.message = "Incorrect OTP."
    /\ Stored(res.req.email) # NoRecord
    /\ now <= Stored(res.req.email).expiresAt
    /\ Stored(res.req.email).otp # res.req.otp

C6_OneRecordPerEmail ==
    /\ [](\A e \in Emails : Cardinality({en \in OTP_STORE : en.key = e}) <= 1)
    /\ [][issued' # issued => \A b \in AnySend, otp \in OTPs :
            SendOtpStore(b, otp) =>
                {en.value : en \in {x \in OTP_STORE' : x.key = b.email}}
                = {[otp |-> otp, expiresAt |-> now + TTL, data |-> b,
                    id |-> issued + 1]}]_vars

\* a second issuance for an email has just overwritten its unverified record
C6_Witness ==
    /\ res.op = "send-otp"
    /\ res.body.success
    /\ issued = 2
    /\ now = 0
    /\ origin = <<>>
    /\ Cardinality(OTP_STORE) = 1
    /\ Stored(res.req.email).id = 2

\* the collection selected by the role of b holds an account with the email
\* and the password of b
HasAccount(b) ==
    \E d \in (IF b.role = "shopkeeper" THEN db["shopkeepers"] ELSE db["users"]) :
        d.email = b.email /\ d.password = b.password

\* C7: a login succeeds only if the collection selected by its role holds an
\* account with its email and password, and a login whose query completes
\* succeeds if it does and is answered "Invalid email or password." if not.
C7_LoginIffAccount ==
    [][Answered("login") =>
         /\ res'.body.success => \A b \in AnyClient.login :
               LoginRequest(b) => (~LoginMissing(b) /\ HasAccount(b))
         /\ LET b == res'.req
            IN (b \in AnyLogin /\ (LoginNoUser(b) \/ LoginFound(b))) =>
                  IF HasAccount(b)
                  THEN res'.body.success
                  ELSE res'.body = Failure("Invalid email or password.")]_vars

\* the credentials of a user account were refused under the role shopkeeper
C7_Witness ==
    /\ res.op = "login"
    /\ res.body.message = "Invalid email or password."
    /\ res.req.role = "shopkeeper"
    /\ \E d \in db["users"] : d.email = res.req.email /\ d.password = res.req.password

\* C8: an issuance whose email send fails is answered with a failure and
\* leaves its record stored; a verification that follows with the record's
\* code is accepted.
C8_FailedSendKeepsRecord ==
    [][/\ Answered("send-otp") => \A b \in AnySend :
            SendOtpFailed(b) =>
                /\ res'.body = Failure("Failed to send OTP.")
                /\ Get(OTP_STORE', b.email) # NoRecord
                /\ Get(OTP_STORE', b.email).data = b
                /\ Get(OTP_STORE', b.email).expiresAt = now + TTL
       /\ (res.op = "send-otp" /\ (Answered("verify-otp") \/ Suspending)) =>
          \A b \in AnyVerify :
            (/\ res.body = Failure("Failed to send OTP.")
             /\ res.req.email = b.email
             /\ VerifyRequest(b)
             /\ Stored(b.email).otp = b.otp) => Accepted(b, Stored(b.email))]_vars

\* a send has just failed and the record of that issuance is stored
C8_Witness ==
    /\ res.op = "send-otp"
    /\ res.body = Failure("Failed to send OTP.")
    /\ Stored(res.req.email) # NoRecord
    /\ Stored(res.req.email).id = issued

\* C9: an issuance with a field missing or an unrecognised role is answered
\* with a failure, writes no record (the store is unchanged) and issues nothing.
C9_InvalidIssuanceRefused ==
    [][Answered("send-otp") => \A b \in AnyClient.send :
         (/\ res'.req.email = b.email
          /\ \/ Absent \in {b.role, b.name, b.email, b.phone, b.password}
             \/ b.role \notin {"user", "shopkeeper"}
          /\ SendRequest(b)) =>
             /\ res'.body \in {Failure("All fields are required."),
                               Failure("Invalid role.")}
             /\ OTP_STORE' = OTP_STORE
             /\ issued' = issued]_vars

\* an invalid issuance for an email was refused while its record stays stored
C9_Witness ==
    /\ res.op = "send-otp"
    /\ res.body \in {Failure("All fields are required."), Failure("Invalid role.")}
    /\ Stored(res.req.email) # NoRecord

\* C10: no collection holds two accounts with the same email.
C10_EmailUniquePerCollection ==
    \A c \in Collections : \A d1, d2 \in db[c] : d1.email = d2.email => d1 = d2

\* C11: a verification whose insertOne fails is answered with the failure
\* "Server error." and nothing else, creates no account and leaves the pending
\* store as it is; a verification that follows with the code of the record
\* still stored, before its expiry, is accepted again.
C11_FailedInsertKeepsRecord ==
    [][(Answered("verify-otp") \/ Suspending) =>
         /\ \A c \in Suspended :
               VerifyOtpInsertFailed(c) =>
                  /\ res'.body = Failure("Server error.")
                  /\ OTP_STORE' = OTP_STORE
                  /\ db' = db
                  /\ origin' = origin
         /\ \A b \in AnyVerify :
               (/\ res = Response("verify-otp", b, Failure("Server error."))
                /\ Stored(b.email) # NoRecord
                /\ now <= Stored(b.email).expiresAt
                /\ Stored(b.email).otp = b.otp
                /\ VerifyRequest(b)) => Accepted(b, Stored(b.email))]_vars

\* an insert has just failed, no account exists and the matched record is
\* still stored with the submitted code
C11_Witness ==
    /\ res.op = "verify-otp"
    /\ res.body = Failure("Server error.")
    /\ AllDocs = {}
    /\ inflight = EmptyBag
    /\ Stored(res.req.email) # NoRecord
    /\ Stored(res.req.email).otp = res.req.otp

\* the bodies with which a handler answers when a collaborator call failed
CaughtBodies ==
    {Failure("Failed to send OTP."), Failure("Server error.")}

\* C12: a request is answered exactly once: its handler either answers in
\* the step that runs it or is suspended at its one awaited call and answers
\* in the step that completes the call, and every suspended handler is
\* eventually answered.  A failed collaborator call is answered with a
\* {success: false, message} body, and no handler calls a collaborator twice.
C12_AnsweredOnce ==
    /\ [][/\ Len(calls') <= 1
          /\ BagCardinality(inflight') >= BagCardinality(inflight) =>
                \/ /\ res' # NoRes
                   /\ inflight' = inflight
                \/ /\ res' = NoRes
                   /\ BagCardinality(inflight') = BagCardinality(inflight) + 1
                   /\ Len(calls') = 1
                \/ /\ res' = NoRes
                   /\ inflight' = inflight
                   /\ calls' = NoCalls
                   /\ now' # now
          /\ BagCardinality(inflight') < BagCardinality(inflight) =>
                /\ BagCardinality(inflight') = BagCardinality(inflight) - 1
                /\ res'.op = "verify-otp"
                /\ calls' = NoCalls
          /\ \A b \in AnySend : SendOtpFailed(b) => res'.body \in CaughtBodies
          /\ \A b \in AnyLogin : LoginFailed(b) => res'.body \in CaughtBodies
          /\ \A c \in Suspended : VerifyOtpInsertFailed(c) => res'.body \in CaughtBodies
         ]_vars
    /\ \A b \in VerifyFull({"a@x.com"}) :
          (\E c \in Suspended : c.req = b) ~>
              (/\ res.op = "verify-otp"
               /\ res.req = b
               /\ calls = NoCalls
               /\ res.body = Failure("Server error.") \/ res.body.success)

\* a suspended handler has just answered after its insertOne rejected
C12_Witness ==
    /\ res.op = "verify-otp"
    /\ res.body = Failure("Server error.")
    /\ calls = NoCalls
    /\ inflight # EmptyBag

\* the record stored for e was issued for a shopkeeper over an unverified
\* record issued for a user, it has not expired and no verification of e is
\* suspended
Reissued(e) ==
    /\ Stored(e) # NoRecord
    /\ Stored(e).data.role = "shopkeeper"
    /\ now <= Stored(e).expiresAt
    /\ Get(replaced, e) # NoRecord
    /\ Get(replaced, e).role = "user"
    /\ \A c \in Suspended : c.req.email # e

\* A verification of a re-issued email: the first code is refused as not
\* found or mismatch and starts no insert, a verification is accepted only
\* with the second code and then for the collection shopkeepers; the insert
\* of a shopkeeper's account leaves the collection users as it is.  With
\* distinct, only re-issuances whose code differs from the first are meant.
SecondCodeOnly(distinct) ==
    /\ (Answered("verify-otp") \/ Suspending) => \A b \in AnyVerify :
          (/\ Reissued(b.email)
           /\ distinct => Get(replaced, b.email).otp # Stored(b.email).otp
           /\ VerifyRequest(b)) =>
              /\ b.otp = Get(replaced, b.email).otp =>
                    /\ res' # NoRes
                    /\ res'.body \in {Failure("OTP not found. Please request again."),
                                      Failure("Incorrect OTP.")}
                    /\ inflight' = inflight
                    /\ db' = db
              /\ Suspending =>
                    /\ b.otp = Stored(b.email).otp
                    /\ Accepted(b, Stored(b.email))
                    /\ \A c \in BagToSet(inflight') : c.collection = "shopkeepers"
    /\ Answered("verify-otp") => \A c \in Suspended :
          (c.role = "shopkeeper" /\ VerifyOtpRegistered(c)) =>
              /\ db'["users"] = db["users"]
              /\ \E d \in db'["shopkeepers"] \ db["shopkeepers"] : d.email = c.req.email

C14_ExpiryFiveMinutes ==
    [][/\ OTP_STORE' # OTP_STORE => \A e \in Emails :
            Get(OTP_STORE', e) # NoRecord =>
                IF Stored(e) # NoRecord /\ Stored(e).id = Get(OTP_STORE', e).id
                THEN Get(OTP_STORE', e).expiresAt = Stored(e).expiresAt
                ELSE Get(OTP_STORE', e).expiresAt = now + 300000
       /\ (Answered("verify-otp") \/ Suspending) => \A b \in AnyVerify :
            (Stored(b.email) # NoRecord /\ VerifyRequest(b)) =>
                (res' # NoRes /\ res'.body = Failure("OTP expired."))
                    <=> now > Stored(b.email).expiresAt]_vars

\* a wrong code was refused as a mismatch, not as expired, at the very
\* instant expiresAt of a record issued five minutes earlier
C14_Witness ==
    /\ res.op = "verify-otp"
    /\ res.body = Failure("Incorrect OTP.")
    /\ Stored(res.req.email) # NoRecord
    /\ now = Stored(res.req.email).expiresAt
    /\ now = 300000

\* C15: a step changes the account store only by adding one document to one
\* collection, and only the completion of the insert of a verification that
\* matched a stored, unexpired record takes such a step; every handler run
\* up to its answer or its await, and every failed insert, leaves the account
\* store as it is, and no stored account is changed or removed.
C15_AccountsOnlyAdded ==
    /\ [](\A c \in Suspended : c.rid \in 1..issued /\ c.doc.email = c.req.email)
    /\ [][/\ \A k \in Collections : db[k] \subseteq db'[k]
          /\ db' # db =>
                /\ Cardinality(db'["users"] \cup db'["shopkeepers"])
                       = Cardinality(AllDocs) + 1
                /\ res' # NoRes
                /\ res'.op = "verify-otp"
                /\ res'.body.success
                /\ \E c \in Suspended : VerifyOtpRegistered(c)
          /\ (\E c \in Suspended : VerifyOtpRegistered(c)) => db' # db
          /\ BagCardinality(inflight') >= BagCardinality(inflight) => db' = db
          /\ Suspending => \E b \in AnyVerify :
                /\ Stored(b.email) # NoRecord
                /\ now <= Stored(b.email).expiresAt
                /\ Stored(b.email).otp = b.otp
                /\ Accepted(b, Stored(b.email))
         ]_vars

\* a second account has just been added beside the first
C15_Witness ==
    /\ res.op = "verify-otp"
    /\ res.body.success
    /\ Cardinality(AllDocs) = 2
    /\ Len(origin) = 2

\* C16: the record stored for an email changes only when a valid issuance
\* for that email writes it, or when a verification for that email removes
\* it on finding it expired or after its insert succeeded; a login and the
\* passage of time leave the whole pending store as it is.
C16_PendingStoreFrame ==
    [][/\ \A e \in Emails :
            Get(OTP_STORE', e) # Stored(e) =>
                \/ \E b \in AnySend, otp \in OTPs : b.email = e /\ SendOtpStore(b, otp)
                \/ /\ Get(OTP_STORE', e) = NoRecord
                   /\ \/ \E b \in AnyVerify : b.email = e /\ VerifyOtpExpired(b)
                      \/ \E c \in Suspended : c.req.email = e /\ VerifyOtpRegistered(c)
       /\ Answered("login") => OTP_STORE' = OTP_STORE
       /\ now' # now => OTP_STORE' = OTP_STORE]_vars

\* a login was answered while an expired record is still stored for one
\* email and an unexpired one for the other
C16_Witness ==
    /\ res.op = "login"
    /\ \E e1, e2 \in Emails :
          /\ Stored(e1) # NoRecord
          /\ now > Stored(e1).expiresAt
          /\ Stored(e2) # NoRecord
          /\ now <= Stored(e2).expiresAt

\* C17: the handler of a matched verification holds the name, phone,
\* password and role of the record it matched and the email of its request;
\* the account its insert adds carries exactly these and a new identifier,
\* lies in shopkeepers when that role is "shopkeeper" and in users otherwise,
\* and the success response returns that role and that identifier.
C17_AccountFromRecord ==
    [][/\ Suspending => \E b \in AnyVerify :
            /\ Stored(b.email) # NoRecord
            /\ inflight' = inflight (+) SetToBag({
                   [req |-> b, role |-> Stored(b.email).data.role,
                    collection |-> IF Stored(b.email).data.role = "shopkeeper"
                                   THEN "shopkeepers" ELSE "users",
                    doc |-> [name |-> Stored(b.email).data.name, email |-> b.email,
                             phone |-> Stored(b.email).data.phone,
                             password |-> Stored(b.email).data.password],
                    rid |-> Stored(b.email).id]})
       /\ db' # db => \E c \in Suspended :
            LET target == IF c.role = "shopkeeper" THEN "shopkeepers" ELSE "users"
                other == IF c.role = "shopkeeper" THEN "users" ELSE "shopkeepers"
            IN /\ inflight' = inflight (-) SetToBag({c})
               /\ db'[other] = db[other]
               /\ \E d \in db'[target] \ db[target] :
                     /\ db'[target] = db[target] \cup {d}
                     /\ d.name = c.doc.name
                     /\ d.email = c.req.email
                     /\ d.phone = c.doc.phone
                     /\ d.password = c.doc.password
                     /\ \A old \in AllDocs : old._id # d._id
                     /\ res' = Response("verify-otp", c.req,
                                        [success |-> TRUE,
                                         message |-> "OTP Verified! Account created.",
                                         accountId |-> d._id, role |-> c.role])]_vars

\* a shopkeeper's account has just been created and answered with its identifier
C17_Witness ==
    /\ res.op = "verify-otp"
    /\ res.body.success
    /\ res.body.role = "shopkeeper"
    /\ db["users"] = {}
    /\ \E d \in db["shopkeepers"] :
          d._id = res.body.accountId /\ d.email = res.req.email /\ d.password = "pw1"

\* C18: an issuance with all fields and a recognised role calls
\* sendOTPEmail exactly once, with the email of the request and the code of
\* the record it wrote, whether or not a record was pending for the email; the
\* record is written before the call, so it is stored however the call ends.
\* An issuance that fails validation calls nothing.
C18_SendsWhatItStored ==
    [][Answered("send-otp") => \A b \in AnyClient.send :
         (res'.req.email = b.email /\ SendRequest(b)) =>
            IF Absent \notin {b.role, b.name, b.email, b.phone, b.password}
               /\ b.role \in {"user", "shopkeeper"}
            THEN /\ Get(OTP_STORE', b.email) # NoRecord
                 /\ Get(OTP_STORE', b.email).id = issued + 1
                 /\ Get(OTP_STORE', b.email).data = b
                 /\ calls' = <<[fn |-> "sendOTPEmail", toEmail |-> b.email,
                                otp |-> Get(OTP_STORE', b.email).otp]>>
            ELSE calls' = NoCalls]_vars

\* a second code has just been sent for an email whose first record was
\* still pending and unexpired
C18_Witness ==
    /\ res.op = "send-otp"
    /\ now = 0
    /\ issued = 2
    /\ Get(replaced, res.req.email) # NoRecord
    /\ Len(calls) = 1
    /\ calls[1].fn = "sendOTPEmail"
    /\ calls[1].toEmail = res.req.email
    /\ calls[1].otp = Stored(res.req.email).otp

\* C19: a verification that succeeds removes only the record it matched: a
\* record written for the email by an issuance made while the verification
\* was suspended at its insert is still stored when the verification has
\* answered.
C19_NewRecordSurvives ==
    [][Answered("verify-otp") => \A c \in Suspended :
         (/\ Stored(c.req.email) # NoRecord
          /\ Stored(c.req.email).id # c.rid
          /\ VerifyOtpRegistered(c)) =>
             Get(OTP_STORE', c.req.email) = Stored(c.req.email)]_vars

\* C20: every stored record lies under the email of its own profile, has the
\* role user or shopkeeper and a name, a phone and a password; every account
\* has a name, an email, a phone and a password and was made from an issued
\* record, whose profile email is the account's email.
C20_WellFormedRecords ==
    /\ [](/\ \A en \in OTP_STORE :
               /\ en.value.data.email = en.key
               /\ en.key # Absent
               /\ en.value.data.role \in {"user", "shopkeeper"}
               /\ Absent \notin {en.value.data.name, en.value.data.phone,
                                 en.value.data.password}
               /\ en.value.id \in 1..issued
           /\ \A d \in db["users"] \cup db["shopkeepers"] :
               /\ Absent \notin {d.name, d.email, d.phone, d.password}
               /\ d._id \in DOMAIN origin
               /\ origin[d._id] \in 1..issued)
    /\ [][Suspending => \E e \in Emails :
             /\ Stored(e) # NoRecord
             /\ \E c \in BagToSet(inflight') :
                   /\ inflight' = inflight (+) SetToBag({c})
                   /\ c.rid = Stored(e).id
                   /\ c.doc.email = Stored(e).data.email]_vars

\* an issuance without a phone has just been refused while a record is
\* pending and an account exists
C20_Witness ==
    /\ res.op = "send-otp"
    /\ res.body = Failure("All fields are required.")
    /\ OTP_STORE # {}
    /\ AllDocs # {}

====
